---- MODULE Spec2Model ----
(***************************************************************************)
(* Model of the mitch in-memory HTTP server: the handler wrapper and the   *)
(* routes registered by server.serve, the /@cdn asset handler with its     *)
(* Range parsing, and the formatters.  Strings whose characters the code   *)
(* inspects (paths, path variables, the Range header) are sequences of     *)
(* one-character strings, so that Split, TrimPrefix and ParseInt are       *)
(* computed character by character as the code computes them.              *)
(***************************************************************************)
EXTENDS Integers, Sequences, FiniteSets, TLC

VARIABLES store, pc, req, res

vars == <<store, pc, req, res>>

----------------------------------------------------------------------------
(* Bounds of the model *)

\* longest free-form Range value (the part after "bytes=") that is enumerated
MaxRangeLen == 3

\* byte size of the larger seeded CDN file
FileSize == 3

----------------------------------------------------------------------------
(* Character strings *)

\* a sequence of n copies of nothing: the empty string
EmptyStr == <<>>

RECURSIVE Concat(_)
\* concatenation of a sequence of strings
Concat(ss) == IF ss = <<>> THEN <<>> ELSE Head(ss) \o Concat(Tail(ss))

\* strings.HasPrefix
HasPrefix(s, p) == Len(s) >= Len(p) /\ SubSeq(s, 1, Len(p)) = p

\* strings.TrimPrefix: s without the leading p, or s unchanged
TrimPrefix(s, p) == IF HasPrefix(s, p) THEN SubSeq(s, Len(p) + 1, Len(s)) ELSE s

RECURSIVE SplitFrom(_, _, _)
\* the fields of s separated by the character sep, cur being the field read so far
SplitFrom(s, sep, cur) ==
    IF s = <<>> THEN <<cur>>
    ELSE IF Head(s) = sep THEN <<cur>> \o SplitFrom(Tail(s), sep, <<>>)
    ELSE SplitFrom(Tail(s), sep, Append(cur, Head(s)))

\* strings.Split(s, sep) for a one-character separator: always at least one field
Split(s, sep) == SplitFrom(s, sep, <<>>)

Digits == {"0", "1", "2", "3", "4", "5", "6", "7", "8", "9"}

DigitVal(c) ==
    CASE c = "0" -> 0 [] c = "1" -> 1 [] c = "2" -> 2 [] c = "3" -> 3 [] c = "4" -> 4
      [] c = "5" -> 5 [] c = "6" -> 6 [] c = "7" -> 7 [] c = "8" -> 8 [] c = "9" -> 9

RECURSIVE DecimalValue(_, _)
\* value of a string of decimal digits, acc being the value of the digits read
DecimalValue(s, acc) ==
    IF s = <<>> THEN acc ELSE DecimalValue(Tail(s), acc * 10 + DigitVal(Head(s)))

\* strconv.ParseInt(s, 10, 64): an optional sign and at least one digit, nothing
\* else; err is TRUE on a syntax error.  The digit strings enumerated here have
\* at most a few digits, so the 64-bit range error cannot occur.
ParseInt(s) ==
    LET signed == s # <<>> /\ Head(s) \in {"+", "-"}
        digs   == IF signed THEN Tail(s) ELSE s
        syntax == digs # <<>> /\ \A i \in 1..Len(digs) : digs[i] \in Digits
    IN  IF ~syntax THEN [err |-> TRUE, val |-> 0]
        ELSE LET mag == DecimalValue(digs, 0)
             IN  [err |-> FALSE, val |-> IF Head(s) = "-" THEN 0 - mag ELSE mag]

----------------------------------------------------------------------------
(* String literals, as character sequences *)

s_profile  == <<"p", "r", "o", "f", "i", "l", "e">>
s_games    == <<"g", "a", "m", "e", "s">>
s_uploads  == <<"u", "p", "l", "o", "a", "d", "s">>
s_builds   == <<"b", "u", "i", "l", "d", "s">>
s_download == <<"d", "o", "w", "n", "l", "o", "a", "d">>
s_sessions == <<"d", "o", "w", "n", "l", "o", "a", "d", "-", "s", "e", "s", "s", "i", "o", "n", "s">>
s_cdn      == <<"/", "@", "c", "d", "n">>
s_slash    == <<"/">>
s_archive  == <<"a", "r", "c", "h", "i", "v", "e">>
s_default  == <<"d", "e", "f", "a", "u", "l", "t">>
s_none     == <<"n", "o", "n", "e">>
s_f1       == <<"/", "f", "1">>
s_f2       == <<"/", "f", "2">>
s_missing  == <<"/", "m", "i", "s", "s", "i", "n", "g">>
s_bytes    == <<"b", "y", "t", "e", "s">>

----------------------------------------------------------------------------
(* The store: entities seeded before serving begins *)

\* the nil pointer
Nil == [nil |-> TRUE]

Users ==
    [id \in {1, 2} |->
        [nil |-> FALSE, ID |-> id, Gamer |-> TRUE, Developer |-> id = 1,
         PressUser |-> FALSE, DisplayName |-> IF id = 1 THEN "Dev" ELSE "Player",
         Username |-> IF id = 1 THEN "dev" ELSE "player", AllowTelemetry |-> id = 2]]

\* API key string -> identifier of the user it belongs to
APIKeys == [k \in {"key1", "key2"} |-> IF k = "key1" THEN 1 ELSE 2]

\* game 1 is public, game 2 is private; both belong to user 1
Games ==
    [id \in {1, 2} |->
        [nil |-> FALSE, ID |-> id, UserID |-> 1, Title |-> IF id = 1 THEN "One" ELSE "Two",
         MinPrice |-> 0, Type |-> "default", Classification |-> "game",
         Published |-> id = 1]]

\* upload 1: hosted asset of game 1; upload 2: build-backed, private game 2;
\* upload 3: unsupported storage kind; upload 4: build-backed, build has no archive
Uploads ==
    [id \in {1, 2, 3, 4} |->
        [nil |-> FALSE, ID |-> id, GameID |-> IF id = 2 THEN 2 ELSE 1, Type |-> "default",
         Storage |-> CASE id = 1 -> "hosted" [] id = 2 -> "build"
                       [] id = 3 -> "external" [] id = 4 -> "build",
         Head |-> CASE id = 2 -> 1 [] id = 4 -> 2 [] OTHER -> 0,
         Size |-> IF id = 1 THEN FileSize ELSE 1,
         Filename |-> IF id = 1 THEN "f1.bin" ELSE "f2.bin",
         URL |-> "",
         CDNPath |-> IF id = 1 THEN s_f1 ELSE s_f2,
         PlatformLinux |-> id \in {1, 2}, PlatformWindows |-> id \in {2, 3},
         PlatformMac |-> id = 2]]

\* build 1 has an (archive, default) file; build 2 has no file at all
Builds ==
    [id \in {1, 2} |->
        [nil |-> FALSE, ID |-> id, UploadID |-> IF id = 1 THEN 2 ELSE 4,
         Files |-> IF id = 1 THEN {[Type |-> s_archive, SubType |-> s_default, CDNPath |-> s_f2]}
                   ELSE {}]]

\* the bytes of a seeded file of n bytes: distinct values, so that a subrange
\* is recognisable
FileBytes(n) == [i \in 1..n |-> 10 + i]

CDNFiles ==
    [p \in {s_f1, s_f2} |->
        IF p = s_f1
        THEN [nil |-> FALSE, Filename |-> "f1.bin", Size |-> FileSize, Contents |-> FileBytes(FileSize)]
        ELSE [nil |-> FALSE, Filename |-> "f2.bin", Size |-> 1, Contents |-> FileBytes(1)]]

SeedStore ==
    [Users |-> Users, APIKeys |-> APIKeys, Games |-> Games, Uploads |-> Uploads,
     Builds |-> Builds, CDNFiles |-> CDNFiles]

\* Store.FindGame / FindUpload / FindBuild: the entity, or nil when absent
StoreFindGame(st, id) == IF id \in DOMAIN st.Games THEN st.Games[id] ELSE Nil

StoreFindUpload(st, id) == IF id \in DOMAIN st.Uploads THEN st.Uploads[id] ELSE Nil

StoreFindBuild(st, id) == IF id \in DOMAIN st.Builds THEN st.Builds[id] ELSE Nil

\* Store.ListUploadsByGame: the uploads of a game, in identifier order
RECURSIVE UploadsFrom(_, _, _)
UploadsFrom(st, gameID, ids) ==
    IF ids = {} THEN <<>>
    ELSE LET m == CHOOSE x \in ids : \A y \in ids : x <= y
             rest == UploadsFrom(st, gameID, ids \ {m})
         IN  IF st.Uploads[m].GameID = gameID THEN <<st.Uploads[m]>> \o rest ELSE rest

ListUploadsByGame(st, gameID) == UploadsFrom(st, gameID, DOMAIN st.Uploads)

\* store.CDNFiles[path]: a map read, nil for a missing key
CDNFileAt(st, path) == IF path \in DOMAIN st.CDNFiles THEN st.CDNFiles[path] ELSE Nil

\* Build.GetFile(type, subtype): the build file with that pair, or nil
GetFile(build, typ, subtype) ==
    LET hits == {f \in build.Files : f.Type = typ /\ f.SubType = subtype}
    IN  IF hits = {} THEN Nil ELSE [nil |-> FALSE, file |-> CHOOSE f \in hits : TRUE]

\* Game.CanBeViewedBy(user): a published game is visible to all, a private one
\* to its owner
CanBeViewedBy(game, user) == game.Published \/ game.UserID = user.ID

\* Upload.CanBeDownloadedBy(user): whoever may view the upload's game
CanBeDownloadedBy(st, upload, user) == CanBeViewedBy(st.Games[upload.GameID], user)

----------------------------------------------------------------------------
(* Requests *)

\* strconv / fmt "%d": the decimal digits of an integer
DigitChar(d) ==
    CASE d = 0 -> "0" [] d = 1 -> "1" [] d = 2 -> "2" [] d = 3 -> "3" [] d = 4 -> "4"
      [] d = 5 -> "5" [] d = 6 -> "6" [] d = 7 -> "7" [] d = 8 -> "8" [] d = 9 -> "9"

RECURSIVE FormatNat(_)
FormatNat(n) == IF n < 10 THEN <<DigitChar(n)>> ELSE Append(FormatNat(n \div 10), DigitChar(n % 10))

FormatInt(n) == IF n < 0 THEN <<"-">> \o FormatNat(0 - n) ELSE FormatNat(n)

\* all strings over an alphabet of at most n characters
StringsUpTo(alphabet, n) == UNION {[1..k -> alphabet] : k \in 0..n}

RangeAlphabet == {"0", "1", "2", "3", "4", "-", ","}

\* values listing two range specifiers
MultiRanges ==
    {a \o <<",">> \o b : a \in {<<"0", "-", "0">>, <<"0", "-", "1">>, <<"1", "-", "2">>},
                         b \in {<<"2", "-", "2">>, <<"0", "-", "0">>}}

RangeValues == StringsUpTo(RangeAlphabet, MaxRangeLen) \cup MultiRanges

\* the Range header: absent (empty), without "=", or "bytes=<value>"
RangeHeaders ==
    {EmptyStr, s_bytes} \cup {s_bytes \o <<"=">> \o v : v \in RangeValues}

IdStrings == {<<"1">>, <<"2">>, <<"3">>, <<"4">>, <<"9">>, <<"x">>}

Join(segs) == Concat([k \in 1..Len(segs) |-> s_slash \o segs[k]])

ApiPaths ==
    {Join(<<s_profile>>)}
    \cup {Join(<<s_games, id>>) : id \in IdStrings}
    \cup {Join(<<s_games, id, s_uploads>>) : id \in IdStrings}
    \cup {Join(<<s_games, id, s_sessions>>) : id \in IdStrings}
    \cup {Join(<<s_uploads, id, s_download>>) : id \in IdStrings}
    \cup {Join(<<s_builds, id, s_download, s_archive, sub>>) :
            id \in IdStrings, sub \in {s_default, s_none}}

CdnPaths == {s_cdn \o p : p \in {s_f1, s_f2, s_missing}}

OtherPaths == {s_slash, Join(<<s_none>>), Join(<<s_profile, s_none>>), s_cdn \o <<"x">>}

\* paths with an empty, a "." or a ".." segment
UncleanPaths ==
    {Join(<<s_games, EmptyStr, <<"1">>>>), Join(<<<<".">>, s_profile>>),
     Join(<<s_none, <<".", ".">>, s_profile>>)}

Methods == {"GET", "POST"}

ApiKeyValues == {"", "bogus", "key1", "key2"}

\* every path with every method and credential, without a Range header; the
\* asset routes with every Range header
Requests ==
    [method : Methods, path : ApiPaths \cup CdnPaths \cup OtherPaths \cup UncleanPaths,
     apiKey : ApiKeyValues, range : {EmptyStr}]
    \cup [method : {"GET"}, path : {s_cdn \o s_f1, s_cdn \o s_f2},
          apiKey : {""}, range : RangeHeaders]
    \cup [method : {"GET"},
          path : {Join(<<s_uploads, <<"1">>, s_download>>),
                  Join(<<s_builds, <<"1">>, s_download, s_archive, s_default>>)},
          apiKey : {"key1"}, range : {s_bytes \o <<"=">> \o v : v \in MultiRanges}]


----------------------------------------------------------------------------
(* The router: routes in registration order, the first match wins *)

RECURSIVE CleanSegments(_, _)
\* path.Clean on the segments of a rooted path, kept being the segments kept so
\* far: an empty or "." segment is dropped, ".." drops the segment before it
CleanSegments(segs, kept) ==
    IF segs = <<>> THEN kept
    ELSE IF Head(segs) = EmptyStr \/ Head(segs) = <<".">> THEN CleanSegments(Tail(segs), kept)
    ELSE IF Head(segs) = <<".", ".">>
         THEN CleanSegments(Tail(segs),
                            IF kept = <<>> THEN kept ELSE SubSeq(kept, 1, Len(kept) - 1))
    ELSE CleanSegments(Tail(segs), Append(kept, Head(segs)))

\* mux cleanPath: the canonical form of a path, rooted, without empty, "." or
\* ".." segments, a trailing slash kept
CleanPath(path) ==
    LET rooted == IF path = EmptyStr \/ Head(path) # "/" THEN s_slash \o path ELSE path
        kept == CleanSegments(Split(rooted, "/"), <<>>)
        np == IF kept = <<>> THEN s_slash ELSE Join(kept)
    IN  IF path = EmptyStr THEN s_slash
        ELSE IF rooted[Len(rooted)] = "/" /\ np # s_slash THEN np \o s_slash
        ELSE np

Lit(s) == [lit |-> s, var |-> ""]

PathVar(name) == [lit |-> EmptyStr, var |-> name]

\* the routes with the prefix route "/" registered before all others
RouteTableDefaultFirst ==
    << [name |-> "default", prefix |-> TRUE, tpl |-> <<>>, pre |-> s_slash],
       [name |-> "profile", prefix |-> FALSE, tpl |-> <<Lit(s_profile)>>, pre |-> EmptyStr],
       [name |-> "game", prefix |-> FALSE, tpl |-> <<Lit(s_games), PathVar("id")>>, pre |-> EmptyStr],
       [name |-> "gameUploads", prefix |-> FALSE,
        tpl |-> <<Lit(s_games), PathVar("id"), Lit(s_uploads)>>, pre |-> EmptyStr],
       [name |-> "downloadSessions", prefix |-> FALSE,
        tpl |-> <<Lit(s_games), PathVar("id"), Lit(s_sessions)>>, pre |-> EmptyStr],
       [name |-> "uploadDownload", prefix |-> FALSE,
        tpl |-> <<Lit(s_uploads), PathVar("id"), Lit(s_download)>>, pre |-> EmptyStr],
       [name |-> "buildDownload", prefix |-> FALSE,
        tpl |-> <<Lit(s_builds), PathVar("id"), Lit(s_download), PathVar("type"),
                  PathVar("subtype")>>, pre |-> EmptyStr],
       [name |-> "cdn", prefix |-> TRUE, tpl |-> <<>>, pre |-> s_cdn] >>

RouteTable ==
    << [name |-> "profile", prefix |-> FALSE, tpl |-> <<Lit(s_profile)>>, pre |-> EmptyStr],
       [name |-> "game", prefix |-> FALSE, tpl |-> <<Lit(s_games), PathVar("id")>>, pre |-> EmptyStr],
       [name |-> "gameUploads", prefix |-> FALSE,
        tpl |-> <<Lit(s_games), PathVar("id"), Lit(s_uploads)>>, pre |-> EmptyStr],
       [name |-> "downloadSessions", prefix |-> FALSE,
        tpl |-> <<Lit(s_games), PathVar("id"), Lit(s_sessions)>>, pre |-> EmptyStr],
       [name |-> "uploadDownload", prefix |-> FALSE,
        tpl |-> <<Lit(s_uploads), PathVar("id"), Lit(s_download)>>, pre |-> EmptyStr],
       [name |-> "buildDownload", prefix |-> FALSE,
        tpl |-> <<Lit(s_builds), PathVar("id"), Lit(s_download), PathVar("type"),
                  PathVar("subtype")>>, pre |-> EmptyStr],
       [name |-> "cdn", prefix |-> TRUE, tpl |-> <<>>, pre |-> s_cdn],
       [name |-> "default", prefix |-> TRUE, tpl |-> <<>>, pre |-> s_slash] >>

\* m.HandleFunc(route, ...): the whole path matches the template, a variable
\* standing for one non-empty segment
MatchesTemplate(tpl, path) ==
    LET segs == Split(path, "/")
    IN  /\ Len(segs) = Len(tpl) + 1
        /\ segs[1] = EmptyStr
        /\ \A k \in 1..Len(tpl) :
              IF tpl[k].var = "" THEN segs[k + 1] = tpl[k].lit ELSE segs[k + 1] # EmptyStr

\* m.PathPrefix(prefix): the path starts with the prefix
RouteMatches(rt, path) ==
    IF rt.prefix THEN HasPrefix(path, rt.pre) ELSE MatchesTemplate(rt.tpl, path)

\* index of the route that serves the path, 0 when none matches
RouteIndex(path) ==
    LET hits == {k \in 1..Len(RouteTable) : RouteMatches(RouteTable[k], path)}
    IN  IF hits = {} THEN 0 ELSE CHOOSE k \in hits : \A j \in hits : k <= j

RouteName(path) == IF RouteIndex(path) = 0 THEN "none" ELSE RouteTable[RouteIndex(path)].name

\* the segment bound to a template variable, empty when the route has none
PathVarValue(path, name) ==
    LET k == RouteIndex(path)
        tpl == IF k = 0 THEN <<>> ELSE RouteTable[k].tpl
        segs == Split(path, "/")
        at == {j \in 1..Len(tpl) : tpl[j].var = name}
    IN  IF at = {} THEN EmptyStr ELSE segs[1 + CHOOSE j \in at : TRUE]

\* the router's work on a request: the route that serves it and mux.Vars
Routed(rq) ==
    [method |-> rq.method, path |-> rq.path, apiKey |-> rq.apiKey, range |-> rq.range,
     route |-> RouteName(rq.path),
     vars |-> [v \in {"id", "type", "subtype"} |-> PathVarValue(rq.path, v)]]

NoRequest ==
    [method |-> "", path |-> EmptyStr, apiKey |-> "", range |-> EmptyStr, route |-> "none",
     vars |-> [v \in {"id", "type", "subtype"} |-> EmptyStr]]

----------------------------------------------------------------------------
(* The request context (type response) *)

NoBody == [json |-> <<>>, errors |-> <<>>, bytes |-> <<>>]

\* what has gone out on the wire: n counts the status lines written
NothingSent == [n |-> 0, status |-> 0, header |-> <<>>, body |-> NoBody]

\* a header map is a sequence of <<canonical name, value>> pairs, one per name
NoHeader == <<>>

NoPanic ==
    [type |-> "none", isError |-> FALSE, wrapped |-> FALSE, status |-> 0,
     messages |-> <<>>, detail |-> ""]

\* the handler's local variables
NoLocals == [id |-> 0, game |-> Nil, upload |-> Nil, build |-> Nil, asset |-> EmptyStr,
             file |-> Nil]

\* res := &response{s, w, req, store}: nothing set, nothing written.  ip is the
\* position in the route's handler, calls the calls the handler has made so
\* far, data the bytes still to be copied to the client.
FreshResponse ==
    [currentUser |-> Nil, status |-> 0, header |-> NoHeader, ip |-> 1, calls |-> <<>>,
     locals |-> NoLocals, data |-> <<>>, panic |-> NoPanic, err |-> NoPanic,
     sent |-> NothingSent]

\* the handler makes the call at its position and moves on to the next
Call(r, name) == [r EXCEPT !.calls = Append(@, name), !.ip = @ + 1]

Called(r, name) == \E k \in 1..Len(r.calls) : r.calls[k] = name

Msg(text, args) == [text |-> text, args |-> args]

\* APIError{status, messages}, wrapped with a stack trace by Throw
APIErrorValue(status, messages) ==
    [type |-> "APIError", isError |-> TRUE, wrapped |-> TRUE, status |-> status,
     messages |-> messages, detail |-> ""]

\* a runtime.Error raised by the Go runtime
RuntimeError(detail) ==
    [type |-> "runtime.Error", isError |-> TRUE, wrapped |-> FALSE, status |-> 0,
     messages |-> <<>>, detail |-> detail]

\* outcomes of a call: it panicked, or it returned
Panicked(r, pv) == [panicked |-> TRUE, r |-> r, pval |-> pv]

Returned(r) == [panicked |-> FALSE, r |-> r, pval |-> NoPanic]

\* Throw(status, messages...): panics with the structured error
Throw(r, status, messages) == Panicked(r, APIErrorValue(status, messages))

\* status of the abort for a method the route has no handler for
InvalidMethodStatus == 405

\* textproto canonical form of the header names the server sets
CanonicalHeaderKey(k) ==
    CASE k = "content-range" -> "Content-Range"
      [] k = "content-length" -> "Content-Length"
      [] k = "accept-range" -> "Accept-Range"
      [] k = "content-type" -> "Content-Type"
      [] k = "content-disposition" -> "Content-Disposition"
      [] k = "connection" -> "Connection"
      [] OTHER -> k

\* the header map m with the value of the canonical key ck replaced or added
HeaderReplace(m, ck, v) ==
    IF \E j \in 1..Len(m) : m[j][1] = ck
    THEN [j \in 1..Len(m) |-> IF m[j][1] = ck THEN <<ck, v>> ELSE m[j]]
    ELSE Append(m, <<ck, v>>)

\* http.Header.Set: replaces the values of the canonicalised key (the map h is
\* evaluated once, then updated)
HeaderSet(h, k, v) ==
    CHOOSE out \in {HeaderReplace(m, CanonicalHeaderKey(k), v) : m \in {h}} : TRUE

HasHeader(h, ck) == \E j \in 1..Len(h) : h[j][1] = ck

HeaderGet(h, ck) == h[CHOOSE j \in 1..Len(h) : h[j][1] = ck][2]

\* r.WriteHeader(): the status line r.status and the headers go out
WriteHeaderOf(r) ==
    [r EXCEPT !.sent = [@ EXCEPT !.n = @ + 1, !.status = r.status, !.header = r.header]]

\* r.WriteJSON(payload): status 200 unless already set, then the JSON body
WriteJSON(r, payload) ==
    [r EXCEPT !.status = IF @ = 0 THEN 200 ELSE @,
              !.header = HeaderSet(@, "content-type", "application/json"),
              !.sent = [n |-> @.n + 1, status |-> IF r.status = 0 THEN 200 ELSE r.status,
                        header |-> HeaderSet(r.header, "content-type", "application/json"),
                        body |-> [@.body EXCEPT !.json = <<payload>>]]]

\* r.WriteError(status, messages...): the status and the body {errors: messages}
WriteError(r, status, messages) ==
    [r EXCEPT !.status = status,
              !.header = HeaderSet(@, "content-type", "application/json"),
              !.sent = [n |-> @.n + 1, status |-> status,
                        header |-> HeaderSet(r.header, "content-type", "application/json"),
                        body |-> [@.body EXCEPT !.errors = messages]]]

\* r.Var(name): the path variable the router bound
Var(rq, name) == rq.vars[name]

----------------------------------------------------------------------------
(* Formatters *)

FormatUser(user) ==
    LET base == [id |-> user.ID, gamer |-> user.Gamer, developer |-> user.Developer,
                 press_user |-> user.PressUser, display_name |-> user.DisplayName,
                 username |-> user.Username, url |-> "http://example.org",
                 cover_url |-> "http://example.org"]
    IN  IF user.AllowTelemetry
        THEN [k \in DOMAIN base \cup {"allow_telemetry"} |->
                 IF k = "allow_telemetry" THEN TRUE ELSE base[k]]
        ELSE base

FormatGame(game) ==
    [id |-> game.ID, user_id |-> game.UserID, title |-> game.Title,
     min_price |-> game.MinPrice, type |-> game.Type,
     classification |-> game.Classification]

\* the formatter naming the Mac platform "mac"
FormatUploadMacKey(upload) ==
    LET linux == IF upload.PlatformLinux THEN {"linux"} ELSE {}
        windows == IF upload.PlatformWindows THEN {"windows"} ELSE {}
        mac == IF upload.PlatformMac THEN {"mac"} ELSE {}
    IN  [id |-> upload.ID, game_id |-> upload.GameID, type |-> upload.Type,
         storage |-> upload.Storage, size |-> upload.Size, filename |-> upload.Filename,
         url |-> upload.URL,
         platforms |-> [k \in linux \cup windows \cup mac |-> "all"]]

FormatUpload(upload) ==
    LET linux == IF upload.PlatformLinux THEN {"linux"} ELSE {}
        windows == IF upload.PlatformWindows THEN {"windows"} ELSE {}
        osx == IF upload.PlatformMac THEN {"osx"} ELSE {}
    IN  [id |-> upload.ID, game_id |-> upload.GameID, type |-> upload.Type,
         storage |-> upload.Storage, size |-> upload.Size, filename |-> upload.Filename,
         url |-> upload.URL,
         platforms |-> [k \in linux \cup windows \cup osx |-> "all"]]

FormatUploads(uploads) == [k \in 1..Len(uploads) |-> FormatUpload(uploads[k])]

----------------------------------------------------------------------------
(* Asset streaming *)

IndexOutOfRange == RuntimeError("index out of range")

SliceOutOfRange == RuntimeError("slice bounds out of range")

\* the five headers every asset response carries
AssetHeaders(h, f, contentLength) ==
    HeaderSet(
      HeaderSet(
        HeaderSet(
          HeaderSet(
            HeaderSet(h, "content-length", FormatInt(contentLength)),
            "accept-range", "bytes"),
          "content-type", "application/octet-stream"),
        "content-disposition", <<"attachment; filename=", f.Filename>>),
      "connection", "close")

\* the text "bytes <start>-<end>/<size>"
ContentRangeValue(start, end, size) ==
    s_bytes \o <<" ">> \o FormatInt(start) \o <<"-">> \o FormatInt(end) \o <<"/">>
        \o FormatInt(size)

\* the slice taken as data[start : end], one byte short
SliceRangeExclusiveEnd(f, start, end, r) ==
    IF ~(0 <= start /\ start <= end /\ end <= Len(f.Contents))
    THEN Panicked(r, SliceOutOfRange)
    ELSE Returned([r EXCEPT
            !.data = SubSeq(f.Contents, start + 1, end),
            !.status = 206,
            !.header = AssetHeaders(
                          HeaderSet(@, "content-range", ContentRangeValue(start, end, f.Size)),
                          f, end + 1 - start)])

\* the 206 response for data[start : end+1]; the slice expression panics unless
\* 0 <= start <= end+1 <= len(data) (the contents of a seeded file have no
\* spare capacity)
SliceRange(f, start, end, r) ==
    IF ~(0 <= start /\ start <= end + 1 /\ end + 1 <= Len(f.Contents))
    THEN Panicked(r, SliceOutOfRange)
    ELSE Returned([r EXCEPT
            !.data = SubSeq(f.Contents, start + 1, end + 1),
            !.status = 206,
            !.header = AssetHeaders(
                          HeaderSet(@, "content-range", ContentRangeValue(start, end, f.Size)),
                          f, end + 1 - start)])

\* start of the range "<start>-<end>": 0 where <start> does not parse
RangeStart(byteTokens) ==
    IF ParseInt(byteTokens[1]).err THEN 0 ELSE ParseInt(byteTokens[1]).val

\* the end defaulting to the size of the file, one past its last byte
RangeEndDefaultSize(f, byteTokens) ==
    IF ParseInt(byteTokens[2]).err THEN f.Size ELSE ParseInt(byteTokens[2]).val

\* end of the range: size-1 where <end> does not parse
RangeEnd(f, byteTokens) ==
    IF ParseInt(byteTokens[2]).err THEN f.Size - 1 ELSE ParseInt(byteTokens[2]).val

\* byteTokens[1] panics when the value has no "-"
ParseRange(f, byteTokens, r) ==
    IF Len(byteTokens) < 2 THEN Panicked(r, IndexOutOfRange)
    ELSE SliceRange(f, RangeStart(byteTokens), RangeEnd(f, byteTokens), r)

\* the streamer answering a request without a Range header as the range of the
\* whole file
StreamAssetWholeAsRange(f, rangeHeader, r) ==
    IF rangeHeader = EmptyStr
    THEN SliceRange(f, 0, f.Size - 1, r)
    ELSE IF Len(Split(rangeHeader, "=")) < 2 THEN Panicked(r, IndexOutOfRange)
    ELSE ParseRange(f, Split(Split(rangeHeader, "=")[2], "-"), r)

\* From the file and the Range header to the status, headers and data to send;
\* rangeTokens[1] panics when the header has no "="
StreamAsset(f, rangeHeader, r) ==
    IF rangeHeader = EmptyStr
    THEN Returned([r EXCEPT !.status = 200, !.data = f.Contents,
                            !.header = AssetHeaders(@, f, f.Size)])
    ELSE IF Len(Split(rangeHeader, "=")) < 2 THEN Panicked(r, IndexOutOfRange)
    ELSE ParseRange(f, Split(Split(rangeHeader, "=")[2], "-"), r)

----------------------------------------------------------------------------
(* Route handlers: the calls each handler makes, in program order *)

\* the key of the RespondToMap of a route
MethodOf(name) == IF name = "downloadSessions" THEN "POST" ELSE "GET"

\* GET /profile
ProfileProgram == <<"RespondTo", "CheckAPIKey", "WriteUser">>

\* the game handler looking the game up before it checks the API key
GameProgramLookupBeforeKey ==
    <<"RespondTo", "Int64Var", "FindGame", "CheckAPIKey", "AssertCanView", "WriteGame">>

\* the game handler reading the store directly, as the uploads handler does
GameProgramStoreLookup ==
    <<"RespondTo", "CheckAPIKey", "Int64Var", "store.FindGame", "AssertCanView", "WriteGame">>

\* GET /games/{id}
GameProgram ==
    <<"RespondTo", "CheckAPIKey", "Int64Var", "FindGame", "AssertCanView", "WriteGame">>

\* GET /games/{id}/uploads: the game comes from the store directly
GameUploadsProgram ==
    <<"RespondTo", "CheckAPIKey", "Int64Var", "store.FindGame", "AssertCanView",
      "WriteUploads">>

\* the download-sessions handler without its authorization check
DownloadSessionsProgramNoAuthorization ==
    <<"RespondTo", "CheckAPIKey", "Int64Var", "store.FindGame", "WriteUUID">>

\* POST /games/{id}/download-sessions: the game comes from the store directly
DownloadSessionsProgram ==
    <<"RespondTo", "CheckAPIKey", "Int64Var", "store.FindGame", "AssertCanView", "WriteUUID">>

\* GET /uploads/{id}/download: after the switch, a hosted upload goes straight
\* to ServeCDNAsset
UploadDownloadProgram ==
    <<"RespondTo", "CheckAPIKey", "Int64Var", "FindUpload", "AssertCanDownload",
      "SwitchStorage", "FindHeadBuild", "GetArchive", "ServeCDNAsset", "WriteHeader",
      "io.Copy">>

\* GET /builds/{id}/download/{type}/{subtype}
BuildDownloadProgram ==
    <<"RespondTo", "CheckAPIKey", "Int64Var", "FindBuild", "FindBuildUpload",
      "AssertCanDownload", "GetBuildFile", "ServeCDNAsset", "WriteHeader", "io.Copy">>

\* the asset handler copying the body before it writes the status and headers
CdnProgramCopyBeforeHeader ==
    <<"RespondTo", "CDNLookup", "StreamAsset", "io.Copy", "WriteHeader">>

\* GET under /@cdn
CdnProgram == <<"RespondTo", "CDNLookup", "StreamAsset", "WriteHeader", "io.Copy">>

\* any other path, any method
DefaultProgram == <<"ThrowInvalidEndpoint">>

\* the handler registered for a route
Program(name) ==
    CASE name = "profile" -> ProfileProgram
      [] name = "game" -> GameProgram
      [] name = "gameUploads" -> GameUploadsProgram
      [] name = "downloadSessions" -> DownloadSessionsProgram
      [] name = "uploadDownload" -> UploadDownloadProgram
      [] name = "buildDownload" -> BuildDownloadProgram
      [] name = "cdn" -> CdnProgram
      [] OTHER -> DefaultProgram

\* position of a call in a route's program
PositionOf(name, instr) ==
    CHOOSE k \in 1..Len(Program(name)) : Program(name)[k] = instr

----------------------------------------------------------------------------
(* The handler wrapper *)

\* errors.Cause: the error under its stack-trace wrappers
Cause(e) == [e EXCEPT !.wrapped = FALSE]

\* errors.Errorf("panic: %+v", r) for a recovered value that is no error
PanicToError(pv) ==
    [type |-> "errorString", isError |-> TRUE, wrapped |-> TRUE, status |-> 0,
     messages |-> <<>>, detail |-> pv.detail]

\* the type assertion cause.(APIError)
IsAPIError(e) == e.type = "APIError" /\ ~e.wrapped

\* the deferred function asserting the type of the recovered error itself, not
\* of its cause
RecoveredWithoutCause(r) ==
    IF r.panic.isError
    THEN IF IsAPIError(r.panic)
         THEN WriteError(r, r.panic.status, r.panic.messages)
         ELSE [r EXCEPT !.err = r.panic]
    ELSE [r EXCEPT !.err = PanicToError(r.panic)]

\* the deferred function without the return after res.WriteError: the
\* structured error is written and also kept as the wrapper's error
RecoveredWithoutReturn(r) ==
    IF r.panic.isError
    THEN IF IsAPIError(Cause(r.panic))
         THEN [WriteError(r, Cause(r.panic).status, Cause(r.panic).messages) EXCEPT
                  !.err = r.panic]
         ELSE [r EXCEPT !.err = r.panic]
    ELSE [r EXCEPT !.err = PanicToError(r.panic)]

\* the deferred function: a recovered structured error is written as it is,
\* anything else becomes the wrapper's error
Recovered(r) ==
    IF r.panic.isError
    THEN IF IsAPIError(Cause(r.panic))
         THEN WriteError(r, Cause(r.panic).status, Cause(r.panic).messages)
         ELSE [r EXCEPT !.err = r.panic]
    ELSE [r EXCEPT !.err = PanicToError(r.panic)]

\* the message of the 500 written for the wrapper's error
InternalErrorMessage(err) == Msg("internal error: %+v", <<err.detail>>)

\* after the handler: an error left by the recovery is written as a 500
AfterHandler(r) ==
    IF r.err # NoPanic
    THEN WriteError(r, 500, <<InternalErrorMessage(r.err)>>)
    ELSE r

----------------------------------------------------------------------------
(* The state machine: each in-flight request is a slot of pc, req and res *)

Slots == DOMAIN pc

Init ==
    /\ store = SeedStore
    /\ pc = [i \in {1} |-> "idle"]
    /\ req = [i \in {1} |-> NoRequest]
    /\ res = [i \in {1} |-> FreshResponse]

\* the route serving the request of a slot
RouteOfSlot(i) == req[i].route

\* the handler of slot i is about to make the call instr
At(i, instr) ==
    /\ pc[i] = "handler"
    /\ Program(RouteOfSlot(i))[res[i].ip] = instr

\* the handler has made a call with outcome o: a panic unwinds to the wrapper
\* (res.panic is the value recover() will return), the end of the program
\* returns to it
Step(i, o) ==
    \E out \in {o} :
        /\ res' = [res EXCEPT ![i] = [out.r EXCEPT !.panic = out.pval]]
        /\ pc' = [pc EXCEPT ![i] =
                     IF out.panicked THEN "panicking"
                     ELSE IF out.r.ip > Len(Program(RouteOfSlot(i))) THEN "returned"
                     ELSE "handler"]
        /\ UNCHANGED <<store, req>>

\* the wrapper building the context of a request from one shared between the
\* requests: the current user of another request in flight is already attached
AcceptSharedContext(i, rq) ==
    /\ pc[i] = "idle"
    /\ CleanPath(rq.path) = rq.path
    /\ req' = [req EXCEPT ![i] = Routed(rq)]
    /\ res' = [res EXCEPT ![i] =
                  [FreshResponse EXCEPT !.currentUser =
                      IF \E j \in Slots : ~res[j].currentUser.nil
                      THEN res[CHOOSE j \in Slots : ~res[j].currentUser.nil].currentUser
                      ELSE Nil]]
    /\ pc' = [pc EXCEPT ![i] = "handler"]
    /\ UNCHANGED store

\* a request arrives: the router picks the route, whose wrapper builds the
\* response context and calls ch(res)
Accept(i, rq) ==
    /\ pc[i] = "idle"
    /\ CleanPath(rq.path) = rq.path
    /\ req' = [req EXCEPT ![i] = Routed(rq)]
    /\ res' = [res EXCEPT ![i] = FreshResponse]
    /\ pc' = [pc EXCEPT ![i] = "handler"]
    /\ UNCHANGED store

\* a request whose path is not in canonical form: the router answers it with a
\* redirect to the canonical path, and no route's handler runs
Redirect(i, rq) ==
    /\ pc[i] = "idle"
    /\ CleanPath(rq.path) # rq.path
    /\ req' = [req EXCEPT ![i] = [NoRequest EXCEPT !.method = rq.method, !.path = rq.path,
                                                    !.apiKey = rq.apiKey, !.range = rq.range]]
    /\ res' = [res EXCEPT ![i] =
                  [FreshResponse EXCEPT
                      !.sent = [n |-> 1, status |-> 301,
                                header |-> HeaderSet(NoHeader, "Location", CleanPath(rq.path)),
                                body |-> NoBody]]]
    /\ pc' = [pc EXCEPT ![i] = "done"]
    /\ UNCHANGED store

\* r.RespondTo(map): the handler for the request's method, or the abort
RespondTo(i) ==
    /\ At(i, "RespondTo")
    /\ Step(i, IF req[i].method = MethodOf(RouteOfSlot(i))
               THEN Returned(Call(res[i], "RespondTo"))
               ELSE Throw(Call(res[i], "RespondTo"), InvalidMethodStatus,
                          <<Msg("invalid method", <<>>)>>))

\* r.CheckAPIKey(): 401 unless the request's key belongs to a user, who becomes
\* the current user
CheckAPIKey(i) ==
    /\ At(i, "CheckAPIKey")
    /\ Step(i, IF req[i].apiKey \in DOMAIN store.APIKeys
               THEN Returned([Call(res[i], "CheckAPIKey") EXCEPT
                                 !.currentUser = store.Users[store.APIKeys[req[i].apiKey]]])
               ELSE Throw(Call(res[i], "CheckAPIKey"), 401, <<Msg("invalid api key", <<>>)>>))

\* r.Int64Var("id"): 400 unless the variable parses as an integer
Int64Var(i) ==
    /\ At(i, "Int64Var")
    /\ Step(i, IF ParseInt(Var(req[i], "id")).err
               THEN Throw(Call(res[i], "Int64Var"), 400,
                          <<Msg("invalid integer variable", <<>>)>>)
               ELSE Returned([Call(res[i], "Int64Var") EXCEPT
                                 !.locals.id = ParseInt(Var(req[i], "id")).val]))

\* r.FindGame(gameID): 404 when the store has no such game
FindGame(i) ==
    /\ At(i, "FindGame")
    /\ Step(i, IF StoreFindGame(store, res[i].locals.id).nil
               THEN Throw(Call(res[i], "FindGame"), 404, <<Msg("game not found", <<>>)>>)
               ELSE Returned([Call(res[i], "FindGame") EXCEPT
                                 !.locals.game = StoreFindGame(store, res[i].locals.id)]))

\* r.store.FindGame(gameID): the game or nil, no abort
StoreFindGameDirect(i) ==
    /\ At(i, "store.FindGame")
    /\ Step(i, Returned([Call(res[i], "store.FindGame") EXCEPT
                            !.locals.game = StoreFindGame(store, res[i].locals.id)]))

\* r.AssertAuthorization(game.CanBeViewedBy(r.currentUser)): the argument is
\* evaluated first, and reading a field of a nil game is a nil-pointer
\* dereference; 403 unless the user may view the game
AssertCanView(i) ==
    /\ At(i, "AssertCanView")
    /\ Step(i, IF res[i].locals.game.nil
               THEN Panicked(Call(res[i], "CanBeViewedBy"),
                             RuntimeError("invalid memory address or nil pointer dereference"))
               ELSE IF CanBeViewedBy(res[i].locals.game, res[i].currentUser)
               THEN Returned(Call(res[i], "AssertAuthorization"))
               ELSE Throw(Call(res[i], "AssertAuthorization"), 403,
                          <<Msg("unauthorized", <<>>)>>))

\* r.FindUpload(uploadID): 404 when the store has no such upload
FindUpload(i) ==
    /\ At(i, "FindUpload")
    /\ Step(i, IF StoreFindUpload(store, res[i].locals.id).nil
               THEN Throw(Call(res[i], "FindUpload"), 404, <<Msg("upload not found", <<>>)>>)
               ELSE Returned([Call(res[i], "FindUpload") EXCEPT
                                 !.locals.upload = StoreFindUpload(store, res[i].locals.id)]))

\* r.FindBuild(buildID): 404 when the store has no such build
FindBuild(i) ==
    /\ At(i, "FindBuild")
    /\ Step(i, IF StoreFindBuild(store, res[i].locals.id).nil
               THEN Throw(Call(res[i], "FindBuild"), 404, <<Msg("build not found", <<>>)>>)
               ELSE Returned([Call(res[i], "FindBuild") EXCEPT
                                 !.locals.build = StoreFindBuild(store, res[i].locals.id)]))

\* r.FindUpload(build.UploadID)
FindBuildUpload(i) ==
    /\ At(i, "FindBuildUpload")
    /\ Step(i, IF StoreFindUpload(store, res[i].locals.build.UploadID).nil
               THEN Throw(Call(res[i], "FindUpload"), 404, <<Msg("upload not found", <<>>)>>)
               ELSE Returned([Call(res[i], "FindUpload") EXCEPT
                                 !.locals.upload =
                                     StoreFindUpload(store, res[i].locals.build.UploadID)]))

\* r.AssertAuthorization(upload.CanBeDownloadedBy(r.currentUser))
AssertCanDownload(i) ==
    /\ At(i, "AssertCanDownload")
    /\ Step(i, IF CanBeDownloadedBy(store, res[i].locals.upload, res[i].currentUser)
               THEN Returned(Call(res[i], "AssertAuthorization"))
               ELSE Throw(Call(res[i], "AssertAuthorization"), 403,
                          <<Msg("unauthorized", <<>>)>>))

\* the switch serving every upload that is not build-backed as a hosted one
SwitchStorageHostedByDefault(i) ==
    /\ At(i, "SwitchStorage")
    /\ Step(i, IF res[i].locals.upload.Storage = "build"
               THEN Returned(Call(res[i], "switch"))
               ELSE Returned([Call(res[i], "switch") EXCEPT
                                 !.locals.asset = res[i].locals.upload.CDNPath,
                                 !.ip = PositionOf("uploadDownload", "ServeCDNAsset")]))

\* switch upload.Storage: a hosted upload is itself the asset to serve, a
\* build-backed one is served from its head build, anything else is a 500
SwitchStorage(i) ==
    /\ At(i, "SwitchStorage")
    /\ Step(i, CASE res[i].locals.upload.Storage = "hosted" ->
                      Returned([Call(res[i], "switch") EXCEPT
                                   !.locals.asset = res[i].locals.upload.CDNPath,
                                   !.ip = PositionOf("uploadDownload", "ServeCDNAsset")])
                 [] res[i].locals.upload.Storage = "build" ->
                      Returned(Call(res[i], "switch"))
                 [] OTHER ->
                      Throw(Call(res[i], "switch"), 500, <<Msg("unsupported storage", <<>>)>>))

\* r.FindBuild(upload.Head)
FindHeadBuild(i) ==
    /\ At(i, "FindHeadBuild")
    /\ Step(i, IF StoreFindBuild(store, res[i].locals.upload.Head).nil
               THEN Throw(Call(res[i], "FindBuild"), 404, <<Msg("build not found", <<>>)>>)
               ELSE Returned([Call(res[i], "FindBuild") EXCEPT
                                 !.locals.build =
                                     StoreFindBuild(store, res[i].locals.upload.Head)]))

\* build.GetFile("archive", "default"), 404 when the build has none
GetArchive(i) ==
    /\ At(i, "GetArchive")
    /\ Step(i, IF GetFile(res[i].locals.build, s_archive, s_default).nil
               THEN Throw(Call(res[i], "GetFile"), 404, <<Msg("no archive for build", <<>>)>>)
               ELSE Returned([Call(res[i], "GetFile") EXCEPT
                       !.locals.asset =
                           GetFile(res[i].locals.build, s_archive, s_default).file.CDNPath]))

\* the build-download handler passing the file on without the nil check: the
\* missing file is dereferenced
GetBuildFileUnchecked(i) ==
    /\ At(i, "GetBuildFile")
    /\ Step(i, IF GetFile(res[i].locals.build, Var(req[i], "type"), Var(req[i], "subtype")).nil
               THEN Panicked(Call(Call(res[i], "GetFile"), "ServeCDNAsset"),
                             RuntimeError("invalid memory address or nil pointer dereference"))
               ELSE Returned([Call(res[i], "GetFile") EXCEPT
                       !.locals.asset =
                           GetFile(res[i].locals.build, Var(req[i], "type"),
                                   Var(req[i], "subtype")).file.CDNPath]))

\* build.GetFile(typ, subtype) for the {type} and {subtype} of the path, 404
\* when the build has no such file
GetBuildFile(i) ==
    /\ At(i, "GetBuildFile")
    /\ Step(i, IF GetFile(res[i].locals.build, Var(req[i], "type"), Var(req[i], "subtype")).nil
               THEN Throw(Call(res[i], "GetFile"), 404,
                          <<Msg("no %s/%s build file",
                                <<Var(req[i], "type"), Var(req[i], "subtype")>>)>>)
               ELSE Returned([Call(res[i], "GetFile") EXCEPT
                       !.locals.asset =
                           GetFile(res[i].locals.build, Var(req[i], "type"),
                                   Var(req[i], "subtype")).file.CDNPath]))

\* r.ServeCDNAsset(asset): the CDN file of the asset, streamed as under /@cdn
ServeCDNAsset(i) ==
    /\ At(i, "ServeCDNAsset")
    /\ Step(i, IF CDNFileAt(store, res[i].locals.asset).nil
               THEN Throw(Call(res[i], "ServeCDNAsset"), 404, <<Msg("not found", <<>>)>>)
               ELSE StreamAsset(CDNFileAt(store, res[i].locals.asset), req[i].range,
                                Call(res[i], "ServeCDNAsset")))

\* under /@cdn: the file stored at the rest of the path, 404 when there is none
CDNLookup(i) ==
    /\ At(i, "CDNLookup")
    /\ Step(i, IF CDNFileAt(store, TrimPrefix(req[i].path, s_cdn)).nil
               THEN Throw(Call(res[i], "CDNFiles"), 404, <<Msg("not found", <<>>)>>)
               ELSE Returned([Call(res[i], "CDNFiles") EXCEPT
                                 !.locals.file = CDNFileAt(store, TrimPrefix(req[i].path, s_cdn))]))

\* under /@cdn: status, headers and data from the file and the Range header
CDNStream(i) ==
    /\ At(i, "StreamAsset")
    /\ Step(i, StreamAsset(res[i].locals.file, req[i].range, Call(res[i], "StreamAsset")))

\* r.WriteHeader() of the asset response
WriteHeader(i) ==
    /\ At(i, "WriteHeader")
    /\ Step(i, Returned(WriteHeaderOf(Call(res[i], "WriteHeader"))))

\* io.Copy(r.w, src): the data goes out
CopyBody(i) ==
    /\ At(i, "io.Copy")
    /\ Step(i, Returned([Call(res[i], "io.Copy") EXCEPT !.sent.body.bytes = res[i].data]))

\* r.WriteJSON({"user": FormatUser(r.currentUser)})
WriteUser(i) ==
    /\ At(i, "WriteUser")
    /\ Step(i, Returned(WriteJSON(Call(res[i], "WriteJSON"),
                                  [key |-> "user", value |-> FormatUser(res[i].currentUser)])))

\* r.WriteJSON({"game": FormatGame(game)})
WriteGame(i) ==
    /\ At(i, "WriteGame")
    /\ Step(i, Returned(WriteJSON(Call(res[i], "WriteJSON"),
                                  [key |-> "game", value |-> FormatGame(res[i].locals.game)])))

\* r.WriteJSON({"uploads": FormatUploads(r.store.ListUploadsByGame(gameID))})
WriteUploads(i) ==
    /\ At(i, "WriteUploads")
    /\ Step(i, Returned(WriteJSON(Call(res[i], "WriteJSON"),
                  [key |-> "uploads",
                   value |-> FormatUploads(ListUploadsByGame(store, res[i].locals.id))])))

\* the download-sessions handler recording the session it hands out in the store
WriteUUIDRecordingSession(i) ==
    /\ At(i, "WriteUUID")
    /\ res' = [res EXCEPT ![i] =
                  WriteJSON(Call(res[i], "WriteJSON"),
                            [key |-> "uuid", value |-> "uuid.New().String()"])]
    /\ pc' = [pc EXCEPT ![i] = "returned"]
    /\ store' = [k \in DOMAIN store \cup {"DownloadSessions"} |->
                    IF k = "DownloadSessions" THEN {res[i].locals.id} ELSE store[k]]
    /\ UNCHANGED req

\* r.WriteJSON({"uuid": uuid.New().String()})
WriteUUID(i) ==
    /\ At(i, "WriteUUID")
    /\ Step(i, Returned(WriteJSON(Call(res[i], "WriteJSON"),
                                  [key |-> "uuid", value |-> "uuid.New().String()"])))

\* the handler of any other path: Throw(404, "invalid api endpoint")
ThrowInvalidEndpoint(i) ==
    /\ At(i, "ThrowInvalidEndpoint")
    /\ Step(i, Throw(Call(res[i], "Throw"), 404, <<Msg("invalid api endpoint", <<>>)>>))

\* the deferred recover() of the wrapper
Recover(i) ==
    /\ pc[i] = "panicking"
    /\ res' = [res EXCEPT ![i] = Recovered(@)]
    /\ pc' = [pc EXCEPT ![i] = "returned"]
    /\ UNCHANGED <<store, req>>

\* the wrapper's check of the error after the handler
Return(i) ==
    /\ pc[i] = "returned"
    /\ res' = [res EXCEPT ![i] = AfterHandler(@)]
    /\ pc' = [pc EXCEPT ![i] = "done"]
    /\ UNCHANGED <<store, req>>

\* the response is complete; the slot serves the next request
Finish(i) ==
    /\ pc[i] = "done"
    /\ pc' = [pc EXCEPT ![i] = "idle"]
    /\ req' = [req EXCEPT ![i] = NoRequest]
    /\ res' = [res EXCEPT ![i] = FreshResponse]
    /\ UNCHANGED store

Next ==
    \/ \E i \in Slots : pc[i] = "idle" /\ \E rq \in Requests : Accept(i, rq)
    \/ \E i \in Slots : pc[i] = "idle" /\ \E rq \in Requests : Redirect(i, rq)
    \/ \E i \in Slots : RespondTo(i)
    \/ \E i \in Slots : CheckAPIKey(i)
    \/ \E i \in Slots : Int64Var(i)
    \/ \E i \in Slots : FindGame(i)
    \/ \E i \in Slots : StoreFindGameDirect(i)
    \/ \E i \in Slots : AssertCanView(i)
    \/ \E i \in Slots : FindUpload(i)
    \/ \E i \in Slots : FindBuild(i)
    \/ \E i \in Slots : FindBuildUpload(i)
    \/ \E i \in Slots : AssertCanDownload(i)
    \/ \E i \in Slots : SwitchStorage(i)
    \/ \E i \in Slots : FindHeadBuild(i)
    \/ \E i \in Slots : GetArchive(i)
    \/ \E i \in Slots : GetBuildFile(i)
    \/ \E i \in Slots : ServeCDNAsset(i)
    \/ \E i \in Slots : CDNLookup(i)
    \/ \E i \in Slots : CDNStream(i)
    \/ \E i \in Slots : WriteHeader(i)
    \/ \E i \in Slots : CopyBody(i)
    \/ \E i \in Slots : WriteUser(i)
    \/ \E i \in Slots : WriteGame(i)
    \/ \E i \in Slots : WriteUploads(i)
    \/ \E i \in Slots : WriteUUID(i)
    \/ \E i \in Slots : ThrowInvalidEndpoint(i)
    \/ \E i \in Slots : Recover(i)
    \/ \E i \in Slots : Return(i)
    \/ \E i \in Slots : Finish(i)

Spec == Init /\ [][Next]_vars

----------------------------------------------------------------------------
(* Requests served concurrently: three requests in flight, their steps       *)
(* interleaved in every order                                               *)

ConcurrentSlots == {1, 2, 3}

\* the profile of each user and of none, an asset whole and in part
ConcurrentRequests ==
    [method : {"GET"}, path : {Join(<<s_profile>>)}, apiKey : {"", "key1", "key2"},
     range : {EmptyStr}]
    \cup {[method |-> "GET", path |-> s_cdn \o s_f2, apiKey |-> "", range |-> EmptyStr],
           [method |-> "GET", path |-> s_cdn \o s_f1, apiKey |-> "",
            range |-> s_bytes \o <<"=", "0", "-", "1">>]}

ConcurrentInit ==
    /\ store = SeedStore
    /\ pc = [i \in ConcurrentSlots |-> "idle"]
    /\ req = [i \in ConcurrentSlots |-> NoRequest]
    /\ res = [i \in ConcurrentSlots |-> FreshResponse]

ConcurrentNext ==
    \/ \E i \in Slots, rq \in ConcurrentRequests : Accept(i, rq)
    \/ \E i \in Slots : RespondTo(i)
    \/ \E i \in Slots : CheckAPIKey(i)
    \/ \E i \in Slots : WriteUser(i)
    \/ \E i \in Slots : CDNLookup(i)
    \/ \E i \in Slots : CDNStream(i)
    \/ \E i \in Slots : WriteHeader(i)
    \/ \E i \in Slots : CopyBody(i)
    \/ \E i \in Slots : Recover(i)
    \/ \E i \in Slots : Return(i)
    \/ \E i \in Slots : Finish(i)

ConcurrentSpec == ConcurrentInit /\ [][ConcurrentNext]_vars

----------------------------------------------------------------------------
(* Every route with scheduling: the goroutine serving a request keeps running *)

\* the Range headers of the scheduled runs: none, one without "=", ranges
\* inside and outside the file, open on either side, and a list of two
LiveRangeHeaders ==
    {EmptyStr, s_bytes} \cup
    {s_bytes \o <<"=">> \o v :
        v \in {<<"0", "-", "1">>, <<"4", "-", "1">>, <<"3", "-">>, <<"-", "1">>,
               <<"0", "-", "1", ",", "2", "-", "2">>}}

\* every path with every method and credential, the asset routes with each of
\* these Range headers
LiveRequests ==
    [method : Methods, path : ApiPaths \cup CdnPaths \cup OtherPaths \cup UncleanPaths,
     apiKey : ApiKeyValues, range : {EmptyStr}]
    \cup [method : {"GET"}, path : {s_cdn \o s_f1, s_cdn \o s_f2},
          apiKey : {""}, range : LiveRangeHeaders]
    \cup [method : {"GET"}, path : {Join(<<s_uploads, <<"1">>, s_download>>)},
          apiKey : {"key1"}, range : LiveRangeHeaders]

\* the steps of the goroutine serving a request, from the wrapper's entry to
\* its return
Serve ==
    \E i \in Slots :
        \/ RespondTo(i) \/ CheckAPIKey(i) \/ Int64Var(i) \/ FindGame(i)
        \/ StoreFindGameDirect(i) \/ AssertCanView(i) \/ FindUpload(i) \/ FindBuild(i)
        \/ FindBuildUpload(i) \/ AssertCanDownload(i) \/ SwitchStorage(i)
        \/ FindHeadBuild(i) \/ GetArchive(i) \/ GetBuildFile(i) \/ ServeCDNAsset(i)
        \/ CDNLookup(i) \/ CDNStream(i) \/ WriteHeader(i) \/ CopyBody(i) \/ WriteUser(i)
        \/ WriteGame(i) \/ WriteUploads(i) \/ WriteUUID(i) \/ ThrowInvalidEndpoint(i)
        \/ Recover(i) \/ Return(i)

LiveNext ==
    \/ \E i \in Slots, rq \in LiveRequests : Accept(i, rq)
    \/ \E i \in Slots, rq \in LiveRequests : Redirect(i, rq)
    \/ Serve
    \/ \E i \in Slots : Finish(i)

\* the goroutine of a request is scheduled until the wrapper returns
LiveSpec == Init /\ [][LiveNext]_vars /\ WF_vars(Serve)

----------------------------------------------------------------------------
(* The formatters on every combination of platform flags: the uploads route  *)
(* over stores whose upload 1 carries each combination                      *)

\* the seeded store with the platform flags of upload 1 set
SeedStoreWithPlatforms(linux, windows, mac) ==
    [SeedStore EXCEPT !.Uploads[1].PlatformLinux = linux,
                      !.Uploads[1].PlatformWindows = windows,
                      !.Uploads[1].PlatformMac = mac]

\* requests for the uploads of a game
FormatRequests ==
    [method : Methods, path : {Join(<<s_games, id, s_uploads>>) : id \in IdStrings},
     apiKey : ApiKeyValues, range : {EmptyStr}]

FormatInit ==
    /\ store \in {SeedStoreWithPlatforms(l, w, m) : l \in BOOLEAN, w \in BOOLEAN, m \in BOOLEAN}
    /\ pc = [i \in {1} |-> "idle"]
    /\ req = [i \in {1} |-> NoRequest]
    /\ res = [i \in {1} |-> FreshResponse]

FormatNext ==
    \/ \E i \in Slots, rq \in FormatRequests : Accept(i, rq)
    \/ \E i \in Slots : RespondTo(i)
    \/ \E i \in Slots : CheckAPIKey(i)
    \/ \E i \in Slots : Int64Var(i)
    \/ \E i \in Slots : StoreFindGameDirect(i)
    \/ \E i \in Slots : AssertCanView(i)
    \/ \E i \in Slots : WriteUploads(i)
    \/ \E i \in Slots : Recover(i)
    \/ \E i \in Slots : Return(i)
    \/ \E i \in Slots : Finish(i)

FormatSpec == FormatInit /\ [][FormatNext]_vars

----------------------------------------------------------------------------
(* Properties *)

ProtectedRoutes ==
    {"profile", "game", "gameUploads", "downloadSessions", "uploadDownload", "buildDownload"}

\* the request of slot i carries the key of a user
Authenticated(i) == req[i].apiKey \in DOMAIN store.APIKeys

\* the request of slot i has the method its route handles
MethodHandled(i) == req[i].method = MethodOf(req[i].route)

Done(i) == pc[i] = "done"

\* the calls that look an entity up, check an authorization or write a body
LookupAuthOrWriteCalls ==
    {"Int64Var", "FindGame", "FindUpload", "FindBuild", "store.FindGame", "CanBeViewedBy",
     "CanBeDownloadedBy", "AssertAuthorization", "GetFile", "switch", "ServeCDNAsset",
     "WriteJSON", "WriteHeader", "io.Copy"}

\* C1 as stated: every request without a valid API key to a protected route
\* is answered 401, and nothing is looked up, authorized or written for it.
C1_UnauthenticatedAlways401 ==
    \A i \in Slots :
        (req[i].route \in ProtectedRoutes /\ ~Authenticated(i)) =>
            /\ \A c \in LookupAuthOrWriteCalls : ~Called(res[i], c)
            /\ Done(i) => res[i].sent.status = 401

\* C1 amended: a request without a valid API key to a protected route, made
\* with the method the route handles, is answered 401 with an error body, and
\* the handler makes no lookup, authorization or write call for it, whatever
\* the path variables.
C1_Unauthenticated401 ==
    \A i \in Slots :
        (req[i].route \in ProtectedRoutes /\ ~Authenticated(i) /\ MethodHandled(i)) =>
            /\ \A c \in LookupAuthOrWriteCalls : ~Called(res[i], c)
            /\ Done(i) =>
                  /\ res[i].sent.status = 401
                  /\ res[i].sent.n = 1
                  /\ res[i].sent.body.json = <<>>
                  /\ res[i].sent.body.bytes = <<>>

\* an unauthenticated request for a game that does not exist was answered
C1_Witness ==
    \E i \in Slots :
        /\ Done(i) /\ req[i].route = "game" /\ ~Authenticated(i) /\ MethodHandled(i)
        /\ req[i].vars["id"] = <<"9">>
        /\ res[i].sent.status = 401

\* C2: when the handler aborted with a structured error, wrapped or not, the
\* wrapper has written exactly one response, with the status and the messages
\* of that error, and keeps no error to report as a 500.
C2_AbortWrittenAsIs ==
    \A i \in Slots :
        (pc[i] \in {"returned", "done"} /\ res[i].panic.type = "APIError") =>
            /\ res[i].sent.n = 1
            /\ res[i].sent.status = res[i].panic.status
            /\ res[i].sent.body.errors = res[i].panic.messages
            /\ res[i].err = NoPanic

\* a wrapped 404 thrown inside r.FindGame was recovered and written
C2_Witness ==
    \E i \in Slots :
        /\ Done(i) /\ res[i].panic.type = "APIError" /\ res[i].panic.wrapped
        /\ Called(res[i], "FindGame")
        /\ res[i].sent.status = 404

\* the faults the handlers can raise
FaultDetails ==
    {"index out of range", "slice bounds out of range",
     "invalid memory address or nil pointer dereference"}

\* C3: a handler that failed with an unstructured fault is answered 500 with a
\* body that is the same whatever the fault was: the body written equals the
\* body any other fault would have produced.
C3_FaultBodyGeneric ==
    \A i \in Slots :
        (Done(i) /\ res[i].err # NoPanic) =>
            /\ res[i].sent.status = 500
            /\ \A d \in FaultDetails :
                  res[i].sent.body.errors = <<InternalErrorMessage(RuntimeError(d))>>

\* the {id} of the request of slot i is an integer
NumericId(i) == ~ParseInt(req[i].vars["id"]).err

IdValue(i) == ParseInt(req[i].vars["id"]).val

\* the entity the {id} of the request names is not in the store
EntityMissing(i) ==
    CASE req[i].route = "game" -> IdValue(i) \notin DOMAIN store.Games
      [] req[i].route = "uploadDownload" -> IdValue(i) \notin DOMAIN store.Uploads
      [] req[i].route = "buildDownload" -> IdValue(i) \notin DOMAIN store.Builds
      [] OTHER -> FALSE

AuthorizationOrWriteCalls ==
    {"CanBeViewedBy", "CanBeDownloadedBy", "AssertAuthorization", "GetFile", "switch",
     "ServeCDNAsset", "WriteJSON", "WriteHeader", "io.Copy"}

\* C4: an authenticated GET of a game, an upload download or a build download
\* whose numeric id names no entity is answered 404, and the handler checks no
\* authorization and writes no asset after the failed lookup.
C4_MissingEntity404 ==
    \A i \in Slots :
        (/\ req[i].route \in {"game", "uploadDownload", "buildDownload"}
         /\ Authenticated(i) /\ MethodHandled(i) /\ NumericId(i) /\ EntityMissing(i)) =>
            /\ \A c \in AuthorizationOrWriteCalls : ~Called(res[i], c)
            /\ Done(i) =>
                  /\ res[i].sent.status = 404
                  /\ res[i].sent.n = 1
                  /\ res[i].sent.body.bytes = <<>>
                  /\ res[i].sent.body.json = <<>>

\* an authenticated request for the missing game 9 was answered 404
C4_Witness ==
    \E i \in Slots :
        /\ Done(i) /\ req[i].route = "game" /\ Authenticated(i) /\ MethodHandled(i)
        /\ NumericId(i) /\ IdValue(i) = 9
        /\ res[i].sent.status = 404

\* C5: an authenticated request for the uploads or a download session of a
\* game that is not in the store is answered 404, the lookup aborting before
\* the view predicate is evaluated.
C5_MissingGame404 ==
    \A i \in Slots :
        (/\ req[i].route \in {"gameUploads", "downloadSessions"}
         /\ Authenticated(i) /\ MethodHandled(i) /\ NumericId(i)
         /\ IdValue(i) \notin DOMAIN store.Games) =>
            /\ ~Called(res[i], "CanBeViewedBy")
            /\ Done(i) => res[i].sent.status = 404

AuthorizedRoutes ==
    {"game", "gameUploads", "downloadSessions", "uploadDownload", "buildDownload"}

\* the user the key of the request belongs to
UserOf(i) == store.Users[store.APIKeys[req[i].apiKey]]

\* the entities the request of slot i addresses are in the store
TargetsExist(i) ==
    CASE req[i].route \in {"game", "gameUploads", "downloadSessions"} ->
            IdValue(i) \in DOMAIN store.Games
      [] req[i].route = "uploadDownload" -> IdValue(i) \in DOMAIN store.Uploads
      [] req[i].route = "buildDownload" ->
            /\ IdValue(i) \in DOMAIN store.Builds
            /\ store.Builds[IdValue(i)].UploadID \in DOMAIN store.Uploads
      [] OTHER -> FALSE

\* the authorization predicate of the route, for the user of the request
PredicateHolds(i) ==
    CASE req[i].route \in {"game", "gameUploads", "downloadSessions"} ->
            CanBeViewedBy(store.Games[IdValue(i)], UserOf(i))
      [] req[i].route = "uploadDownload" ->
            CanBeDownloadedBy(store, store.Uploads[IdValue(i)], UserOf(i))
      [] req[i].route = "buildDownload" ->
            CanBeDownloadedBy(store, store.Uploads[store.Builds[IdValue(i)].UploadID], UserOf(i))

\* C6: for an authenticated request whose entities exist, a false authorization
\* predicate gives 403 with no entity JSON, uuid or asset byte written, and a
\* true one lets the handler go on: to the JSON response on the game routes,
\* to the choice of the asset on the download routes.
C6_Authorization ==
    \A i \in Slots :
        (/\ Done(i) /\ req[i].route \in AuthorizedRoutes
         /\ Authenticated(i) /\ MethodHandled(i) /\ NumericId(i) /\ TargetsExist(i)) =>
            IF PredicateHolds(i)
            THEN /\ res[i].sent.status # 403
                 /\ Called(res[i], "AssertAuthorization")
                 /\ req[i].route \in {"game", "gameUploads", "downloadSessions"} =>
                       res[i].sent.status = 200 /\ res[i].sent.body.json # <<>>
                 /\ req[i].route = "uploadDownload" => Called(res[i], "switch")
                 /\ req[i].route = "buildDownload" => Called(res[i], "GetFile")
            ELSE /\ res[i].sent.status = 403
                 /\ res[i].sent.n = 1
                 /\ res[i].sent.body.json = <<>>
                 /\ res[i].sent.body.bytes = <<>>
                 /\ \A c \in {"GetFile", "switch", "ServeCDNAsset", "WriteJSON",
                              "WriteHeader", "io.Copy"} : ~Called(res[i], c)

\* user 2 was refused a download session of the private game 2 of user 1
C6_Witness ==
    \E i \in Slots :
        /\ Done(i) /\ req[i].route = "downloadSessions" /\ MethodHandled(i)
        /\ req[i].apiKey = "key2" /\ NumericId(i) /\ IdValue(i) = 2
        /\ res[i].sent.status = 403

\* the owner was given a download session of the private game
C6_WitnessAuthorized ==
    \E i \in Slots :
        /\ Done(i) /\ req[i].route = "downloadSessions" /\ MethodHandled(i)
        /\ req[i].apiKey = "key1" /\ NumericId(i) /\ IdValue(i) = 2
        /\ res[i].sent.status = 200

\* the request of slot i is a GET under /@cdn for a file of the store
CdnFileRequest(i) ==
    /\ req[i].route = "cdn" /\ MethodHandled(i)
    /\ TrimPrefix(req[i].path, s_cdn) \in DOMAIN store.CDNFiles

CdnFileOf(i) == store.CDNFiles[TrimPrefix(req[i].path, s_cdn)]

\* the header "bytes=<start>-<end>"
RangeOf(start, end) == s_bytes \o <<"=">> \o FormatInt(start) \o <<"-">> \o FormatInt(end)

\* the response of slot i is the 206 for the bytes start..end of the file f
IsPartial(i, f, start, end) ==
    /\ res[i].sent.status = 206
    /\ res[i].sent.n = 1
    /\ HasHeader(res[i].sent.header, "Content-Length")
    /\ HeaderGet(res[i].sent.header, "Content-Length") = FormatInt(end - start + 1)
    /\ HasHeader(res[i].sent.header, "Content-Range")
    /\ HeaderGet(res[i].sent.header, "Content-Range") = ContentRangeValue(start, end, f.Size)
    /\ Len(res[i].sent.body.bytes) = end - start + 1
    /\ \A k \in start..end : res[i].sent.body.bytes[k - start + 1] = f.Contents[k + 1]

\* C7: for a file of size S and a Range header bytes=<start>-<end> with
\* 0 <= start <= end < S, the response is 206 with Content-Length
\* end - start + 1, Content-Range "bytes <start>-<end>/<S>" and exactly the
\* bytes start..end of the file as its body.
C7_ValidRange206 ==
    \A i \in Slots :
        (Done(i) /\ CdnFileRequest(i)) =>
            \A start \in 0..(CdnFileOf(i).Size - 1) : \A end \in start..(CdnFileOf(i).Size - 1) :
                req[i].range = RangeOf(start, end) => IsPartial(i, CdnFileOf(i), start, end)

\* bytes 1-2 of the larger file were served
C7_Witness ==
    \E i \in Slots :
        /\ Done(i) /\ CdnFileRequest(i) /\ req[i].range = RangeOf(1, 2)
        /\ res[i].sent.status = 206
        /\ res[i].sent.body.bytes = <<FileBytes(FileSize)[2], FileBytes(FileSize)[3]>>

\* C8: for an existing CDN file, a request without a Range header is answered
\* 200 without Content-Range, with Content-Length the size of the file and the
\* whole contents as body, so that Content-Length is the number of body bytes.
C8_NoRange200 ==
    \A i \in Slots :
        (Done(i) /\ CdnFileRequest(i) /\ req[i].range = EmptyStr) =>
            /\ res[i].sent.status = 200
            /\ res[i].sent.n = 1
            /\ ~HasHeader(res[i].sent.header, "Content-Range")
            /\ HasHeader(res[i].sent.header, "Content-Length")
            /\ HeaderGet(res[i].sent.header, "Content-Length") = FormatInt(CdnFileOf(i).Size)
            /\ res[i].sent.body.bytes = CdnFileOf(i).Contents
            /\ ParseInt(HeaderGet(res[i].sent.header, "Content-Length")).val
                  = Len(res[i].sent.body.bytes)

\* the larger file was served whole
C8_Witness ==
    \E i \in Slots :
        /\ Done(i) /\ CdnFileRequest(i) /\ req[i].range = EmptyStr
        /\ res[i].sent.status = 200
        /\ res[i].sent.body.bytes = FileBytes(FileSize)
        /\ Len(res[i].sent.body.bytes) = FileSize

\* the Range header has a "=" and its value a "-", so that start and end resolve
HasBounds(range) ==
    /\ Len(Split(range, "=")) >= 2
    /\ Len(Split(Split(range, "=")[2], "-")) >= 2

ResolvedStart(range) == RangeStart(Split(Split(range, "=")[2], "-"))

ResolvedEnd(f, range) == RangeEnd(f, Split(Split(range, "=")[2], "-"))

\* C9: a Range header whose resolved start and end do not satisfy
\* 0 <= start <= end < S is answered 500, without a 206, a Content-Range
\* header or any asset byte.
C9_InvalidRange500 ==
    \A i \in Slots :
        (/\ Done(i) /\ CdnFileRequest(i) /\ req[i].range # EmptyStr /\ HasBounds(req[i].range)
         /\ ~(/\ 0 <= ResolvedStart(req[i].range)
              /\ ResolvedStart(req[i].range) <= ResolvedEnd(CdnFileOf(i), req[i].range)
              /\ ResolvedEnd(CdnFileOf(i), req[i].range) < CdnFileOf(i).Size)) =>
            /\ res[i].sent.status = 500
            /\ ~HasHeader(res[i].sent.header, "Content-Range")
            /\ res[i].sent.body.bytes = <<>>

\* C10: for a Range header listing several specifiers, the response is the 206
\* for the first specifier alone.
C10_FirstRangeOnly ==
    \A i \in Slots :
        (Done(i) /\ CdnFileRequest(i)) =>
            \A start \in 0..(CdnFileOf(i).Size - 1) : \A end \in start..(CdnFileOf(i).Size - 1) :
                (\E more \in {<<"2", "-", "2">>, <<"0", "-", "0">>} :
                    req[i].range = RangeOf(start, end) \o <<",">> \o more)
                => IsPartial(i, CdnFileOf(i), start, end)

AssetRoutes == {"cdn", "uploadDownload", "buildDownload"}

\* the response headers sent for slot i carry the header ck with the value v
SentHeader(i, ck, v) ==
    /\ HasHeader(res[i].sent.header, ck)
    /\ HeaderGet(res[i].sent.header, ck) = v

\* the request of slot i was answered with an asset: the status line 200 or 206
\* of an asset route has been written
AssetSent(i) ==
    /\ req[i].route \in AssetRoutes
    /\ res[i].sent.n >= 1
    /\ res[i].sent.status \in {200, 206}

\* C11: every asset response with status 200 or 206 carries, in the headers
\* written with its status line, Content-Type: application/octet-stream,
\* Content-Disposition: attachment; filename="<name>", Accept-Ranges: bytes and
\* Connection: close.
C11_AssetHeaders ==
    \A i \in Slots :
        AssetSent(i) =>
            /\ SentHeader(i, "Content-Type", "application/octet-stream")
            /\ \E f \in {store.CDNFiles[p] : p \in DOMAIN store.CDNFiles} :
                  SentHeader(i, "Content-Disposition", <<"attachment; filename=", f.Filename>>)
            /\ SentHeader(i, "Accept-Ranges", "bytes")
            /\ SentHeader(i, "Connection", "close")

\* the asset responses do carry the header under the name the code sets
C11_AcceptRangeSingular ==
    \A i \in Slots :
        AssetSent(i) =>
            /\ SentHeader(i, "Accept-Range", "bytes")
            /\ ~HasHeader(res[i].sent.header, "Accept-Ranges")

\* an asset was answered 200 with its headers
C11_Witness ==
    \E i \in Slots :
        /\ Done(i) /\ AssetSent(i) /\ req[i].route = "cdn"
        /\ res[i].sent.status = 200
        /\ SentHeader(i, "Connection", "close")

\* the exact-pattern routes whose pattern matches the whole path
ExactMatches(path) ==
    {k \in 1..Len(RouteTable) : ~RouteTable[k].prefix /\ MatchesTemplate(RouteTable[k].tpl, path)}

\* the prefix routes whose prefix the path starts with
PrefixMatches(path) ==
    {k \in 1..Len(RouteTable) : RouteTable[k].prefix /\ HasPrefix(path, RouteTable[k].pre)}

\* the route the stated precedence gives a path: the exact pattern that matches
\* it, otherwise the matching prefix route with the longest prefix
RouteByPrecedence(path) ==
    IF ExactMatches(path) # {}
    THEN RouteTable[CHOOSE k \in ExactMatches(path) : TRUE].name
    ELSE IF PrefixMatches(path) # {}
    THEN RouteTable[CHOOSE k \in PrefixMatches(path) :
                       \A j \in PrefixMatches(path) :
                           Len(RouteTable[j].pre) <= Len(RouteTable[k].pre)].name
    ELSE "none"

\* the request of slot i, from its arrival to the end of its response
InFlight(i) == pc[i] # "idle"

\* slot i was answered 404 with an error body and nothing else
Answered404(i) ==
    /\ res[i].sent.n = 1
    /\ res[i].sent.status = 404
    /\ res[i].sent.body.errors # <<>>
    /\ res[i].sent.body.json = <<>>
    /\ res[i].sent.body.bytes = <<>>

\* the handler the stated precedence gives the path is the one that serves the
\* request of slot i, and a path left to the default handler is answered 404
DispatchedByPrecedence(i) ==
    /\ Cardinality(ExactMatches(req[i].path)) <= 1
    /\ req[i].route = RouteByPrecedence(req[i].path)
    /\ (ExactMatches(req[i].path) = {} /\ ~HasPrefix(req[i].path, s_cdn)) =>
          /\ req[i].route = "default"
          /\ Done(i) => Answered404(i)

\* C12 as stated: every request path is dispatched to the one handler the
\* precedence (exact pattern, then longest prefix) gives it, and a path that
\* matches no exact pattern and is not under /@cdn is answered 404 by the
\* default handler, whatever the method.
C12_EveryPathDispatched ==
    \A i \in Slots : InFlight(i) => DispatchedByPrecedence(i)

\* C12 amended: every request path in canonical form is dispatched to the one
\* handler the precedence gives it, a canonical path that matches no exact
\* pattern and is not under /@cdn being answered 404 by the default handler
\* whatever the method; a path not in canonical form reaches no handler and is
\* answered with a redirect to its canonical form.
C12_CanonicalPathDispatched ==
    \A i \in Slots :
        InFlight(i) =>
            IF CleanPath(req[i].path) = req[i].path
            THEN DispatchedByPrecedence(i)
            ELSE /\ res[i].calls = <<>>
                 /\ res[i].sent.status = 301
                 /\ SentHeader(i, "Location", CleanPath(req[i].path))

\* a POST to a path under no route was answered 404 by the default handler
C12_Witness ==
    \E i \in Slots :
        /\ Done(i) /\ req[i].method = "POST" /\ req[i].path = Join(<<s_profile, s_none>>)
        /\ req[i].route = "default" /\ Called(res[i], "Throw")
        /\ Answered404(i)

\* a path just under /@cdn went to the asset handler, not to the default one
C12_WitnessCdnPrefix ==
    \E i \in Slots :
        /\ Done(i) /\ req[i].path = s_cdn \o s_f1 /\ req[i].route = "cdn"
        /\ res[i].sent.status = 200

\* the request of slot i is an authenticated download, by its handled method,
\* of entities that exist and that its user may download
AuthorizedDownload(i) ==
    /\ req[i].route \in {"uploadDownload", "buildDownload"}
    /\ Authenticated(i) /\ MethodHandled(i) /\ NumericId(i)
    /\ TargetsExist(i) /\ PredicateHolds(i)

\* the build the download of slot i is served from exists, and has no file for
\* the pair asked for: the {type} and {subtype} of the path on the build route,
\* (archive, default) of the head build on the upload route
BuildFileMissing(i) ==
    CASE req[i].route = "buildDownload" ->
            GetFile(store.Builds[IdValue(i)], req[i].vars["type"], req[i].vars["subtype"]).nil
      [] req[i].route = "uploadDownload" ->
            /\ store.Uploads[IdValue(i)].Storage = "build"
            /\ store.Uploads[IdValue(i)].Head \in DOMAIN store.Builds
            /\ GetFile(store.Builds[store.Uploads[IdValue(i)].Head], s_archive, s_default).nil
      [] OTHER -> FALSE

\* C13: an authenticated and authorized download whose build exists but has no
\* file for the requested pair is answered 404, never 500, and the asset
\* streamer is never called for it.
C13_MissingBuildFile404 ==
    \A i \in Slots :
        (AuthorizedDownload(i) /\ BuildFileMissing(i)) =>
            /\ ~Called(res[i], "ServeCDNAsset")
            /\ ~Called(res[i], "WriteHeader")
            /\ Done(i) => Answered404(i) /\ Called(res[i], "GetFile")

\* build 1 was asked for a subtype it has no file for, and answered 404
C13_Witness ==
    \E i \in Slots :
        /\ Done(i) /\ req[i].route = "buildDownload" /\ AuthorizedDownload(i)
        /\ IdValue(i) = 1 /\ req[i].vars["subtype"] = s_none
        /\ BuildFileMissing(i) /\ Answered404(i)

\* upload 4, whose head build has no archive, was answered 404
C13_WitnessArchive ==
    \E i \in Slots :
        /\ Done(i) /\ req[i].route = "uploadDownload" /\ AuthorizedDownload(i)
        /\ IdValue(i) = 4 /\ BuildFileMissing(i) /\ Answered404(i)

\* the upload the download request of slot i names
UploadOf(i) == store.Uploads[IdValue(i)]

\* the whole file at a CDN path was sent as the body of slot i
ServedWhole(i, path) ==
    /\ path \in DOMAIN store.CDNFiles
    /\ res[i].sent.status = 200
    /\ res[i].sent.body.bytes = store.CDNFiles[path].Contents

\* C14: an authenticated and authorized GET /uploads/{id}/download of an
\* existing upload is answered by its storage kind alone: 500 without asset
\* bytes for a kind that is neither hosted nor build, the upload's own asset
\* for hosted, the (archive, default) file of the head build for build.
C14_DeliveryByStorage ==
    \A i \in Slots :
        (Done(i) /\ req[i].route = "uploadDownload" /\ AuthorizedDownload(i)) =>
            CASE UploadOf(i).Storage = "hosted" ->
                    /\ ~Called(res[i], "FindBuild") /\ ~Called(res[i], "GetFile")
                    /\ Called(res[i], "ServeCDNAsset")
                    /\ res[i].locals.asset = UploadOf(i).CDNPath
                    /\ req[i].range = EmptyStr => ServedWhole(i, UploadOf(i).CDNPath)
              [] UploadOf(i).Storage = "build" ->
                    /\ Called(res[i], "FindBuild")
                    /\ (UploadOf(i).Head \in DOMAIN store.Builds
                        /\ ~GetFile(store.Builds[UploadOf(i).Head], s_archive, s_default).nil) =>
                          /\ Called(res[i], "ServeCDNAsset")
                          /\ res[i].locals.asset =
                                GetFile(store.Builds[UploadOf(i).Head], s_archive,
                                        s_default).file.CDNPath
                          /\ req[i].range = EmptyStr => ServedWhole(i, res[i].locals.asset)
              [] OTHER ->
                    /\ res[i].sent.status = 500
                    /\ res[i].sent.n = 1
                    /\ res[i].sent.body.bytes = <<>>
                    /\ \A c \in {"FindBuild", "GetFile", "ServeCDNAsset", "WriteHeader", "io.Copy"} :
                          ~Called(res[i], c)

\* upload 3, of an unsupported storage kind, was answered 500
C14_Witness ==
    \E i \in Slots :
        /\ Done(i) /\ req[i].route = "uploadDownload" /\ AuthorizedDownload(i)
        /\ UploadOf(i).Storage \notin {"hosted", "build"}
        /\ res[i].sent.status = 500

\* the hosted upload 1 and the build-backed upload 2 were served whole, each
\* from its own file
C14_WitnessServed ==
    \E i \in Slots :
        /\ Done(i) /\ req[i].route = "uploadDownload" /\ AuthorizedDownload(i)
        /\ UploadOf(i).Storage = "build"
        /\ ServedWhole(i, s_f2)

PlatformKeys == {"linux", "windows", "osx"}

\* the formatted upload out has a platforms object with exactly the keys of
\* the flags of the upload u that are set, each mapped to "all"
PlatformsMatch(out, u) ==
    /\ "platforms" \in DOMAIN out
    /\ DOMAIN out.platforms \subseteq PlatformKeys
    /\ ("linux" \in DOMAIN out.platforms) <=> u.PlatformLinux
    /\ ("windows" \in DOMAIN out.platforms) <=> u.PlatformWindows
    /\ ("osx" \in DOMAIN out.platforms) <=> u.PlatformMac
    /\ \A k \in DOMAIN out.platforms : out.platforms[k] = "all"

\* the uploads written as the JSON body of slot i
UploadsWritten(i) == res[i].sent.body.json[1].value

\* C15: for every upload u, the platforms object of FormatUpload(u) has the key
\* linux iff u.PlatformLinux, windows iff u.PlatformWindows, osx iff
\* u.PlatformMac, every key mapped to "all", no other key, and is present even
\* when no flag is set; so it is for every upload of a listing that was written.
C15_Platforms ==
    /\ \A id \in DOMAIN store.Uploads :
          PlatformsMatch(FormatUpload(store.Uploads[id]), store.Uploads[id])
    /\ \A i \in Slots :
          (Done(i) /\ req[i].route = "gameUploads" /\ res[i].sent.status = 200) =>
              /\ Len(UploadsWritten(i)) = Len(ListUploadsByGame(store, IdValue(i)))
              /\ \A k \in 1..Len(UploadsWritten(i)) :
                    PlatformsMatch(UploadsWritten(i)[k], ListUploadsByGame(store, IdValue(i))[k])

\* a listing was written with an upload for all three platforms and an upload
\* for none, whose platforms object is empty
C15_Witness ==
    \E i \in Slots :
        /\ Done(i) /\ req[i].route = "gameUploads" /\ res[i].sent.status = 200
        /\ store.Uploads[1].PlatformLinux /\ store.Uploads[1].PlatformWindows
        /\ store.Uploads[1].PlatformMac
        /\ \E k \in 1..Len(UploadsWritten(i)) :
              /\ UploadsWritten(i)[k].id = 1
              /\ DOMAIN UploadsWritten(i)[k].platforms = PlatformKeys
        /\ \E k \in 1..Len(UploadsWritten(i)) :
              /\ UploadsWritten(i)[k].id = 4
              /\ DOMAIN UploadsWritten(i)[k].platforms = {}

\* the entity data a finished read request was answered with is the data of
\* the seeded store, whatever was served before
EntityDataFromSeed(i) ==
    (Done(i) /\ res[i].sent.status = 200 /\ res[i].sent.body.json # <<>>) =>
        CASE req[i].route = "profile" ->
                res[i].sent.body.json[1].value = FormatUser(SeedStore.Users[SeedStore.APIKeys[req[i].apiKey]])
          [] req[i].route = "game" ->
                res[i].sent.body.json[1].value = FormatGame(SeedStore.Games[IdValue(i)])
          [] req[i].route = "gameUploads" ->
                res[i].sent.body.json[1].value
                    = FormatUploads(ListUploadsByGame(SeedStore, IdValue(i)))
          [] OTHER -> TRUE

\* C16: no step of any request, on any route, with any method and any outcome,
\* changes the store: users, games, uploads, builds and CDN files stay as they
\* were seeded, POST /games/{id}/download-sessions records nothing, and read
\* requests are always answered with the seeded entity data.
C16_StoreUnchanged ==
    /\ [][store' = store]_vars
    /\ [](store = SeedStore /\ \A i \in Slots : EntityDataFromSeed(i))

\* a download session was handed out, and the store is as it was seeded
C16_Witness ==
    \E i \in Slots :
        /\ Done(i) /\ req[i].route = "downloadSessions" /\ req[i].method = "POST"
        /\ res[i].sent.status = 200 /\ res[i].sent.body.json # <<>>
        /\ res[i].sent.body.json[1].key = "uuid"
        /\ store = SeedStore

\* the response of slot i has one body: the JSON of a success, the bytes of an
\* asset, or the messages of an error
OneBody(i) ==
    \/ /\ res[i].sent.status = 200 /\ res[i].sent.body.json # <<>>
       /\ res[i].sent.body.errors = <<>> /\ res[i].sent.body.bytes = <<>>
    \/ /\ res[i].sent.status \in {200, 206} /\ Called(res[i], "io.Copy")
       /\ res[i].sent.body.errors = <<>> /\ res[i].sent.body.json = <<>>
    \/ /\ res[i].sent.status >= 400 /\ res[i].sent.body.errors # <<>>
       /\ res[i].sent.body.json = <<>> /\ res[i].sent.body.bytes = <<>>

\* values a handler can panic with: a structured error, wrapped or bare, a
\* runtime error, and a value that is no error
PanicValues ==
    {APIErrorValue(404, <<Msg("not found", <<>>)>>),
     Cause(APIErrorValue(403, <<Msg("unauthorized", <<>>)>>)),
     RuntimeError("index out of range"),
     [type |-> "string", isError |-> FALSE, wrapped |-> FALSE, status |-> 0,
      messages |-> <<>>, detail |-> "boom"]}

\* the wrapper's answer to a panic with the value pv raised before anything
\* was written
AnswerToPanic(pv) == AfterHandler(Recovered([FreshResponse EXCEPT !.panic = pv])).sent

\* C17: every request to a route is eventually answered, and when the wrapper
\* returns exactly one status with one body has been written, whether the
\* handler completed, aborted or panicked with an error or with a value that is
\* no error; the wrapper recovers at most once per request.
C17_ExactlyOneResponse ==
    /\ [](\A i \in Slots :
             (Done(i) /\ req[i].route # "none") => res[i].sent.n = 1 /\ OneBody(i))
    /\ [](\A pv \in PanicValues :
             /\ AnswerToPanic(pv).n = 1
             /\ AnswerToPanic(pv).status = IF pv.type = "APIError" THEN pv.status ELSE 500
             /\ AnswerToPanic(pv).body.errors # <<>>)
    /\ [][\A i \in Slots : pc[i] \in {"returned", "done"} => pc'[i] # "panicking"]_vars
    /\ \A i \in {1} : (pc[i] \in {"handler", "panicking", "returned"}) ~> Done(i)

\* a request whose handler panicked with a runtime error was answered once
C17_Witness ==
    \E i \in Slots :
        /\ Done(i) /\ res[i].panic.type = "runtime.Error"
        /\ res[i].sent.n = 1 /\ res[i].sent.status = 500

\* where the asset request of slot i stands: 0 Unsent (no status or header set),
\* 1 HeaderSet (the status and headers of the asset are set), 2 BodyWriting
\* (io.Copy has been called), 3 Done (the wrapper has returned)
Phase(i) ==
    IF Done(i) THEN 3
    ELSE IF Called(res[i], "io.Copy") THEN 2
    ELSE IF res[i].status \in {200, 206} THEN 1
    ELSE 0

\* the request of slot i is on an asset route and its handler aborted or panicked
Aborted(i) == res[i].panic # NoPanic

\* body bytes go out only after the one status line, which carried the status
\* and all the headers set for the asset
HeadersBeforeBody(i) ==
    (Called(res[i], "io.Copy") \/ res[i].sent.body.bytes # <<>>) =>
        /\ res[i].sent.n = 1
        /\ res[i].sent.status = res[i].status
        /\ res[i].sent.status \in {200, 206}
        /\ res[i].sent.header = res[i].header
        /\ \A ck \in {"Content-Length", "Content-Type", "Content-Disposition", "Connection"} :
              HasHeader(res[i].sent.header, ck)
        /\ res[i].sent.body.errors = <<>>
        /\ ~Aborted(i)

\* a step of the request of slot i moves it to the next phase or leaves it in
\* its phase; only a request that aborts while nothing is set goes from Unsent
\* to Done, with the error response
PhaseStep(i) ==
    \/ Phase(i)' = Phase(i)
    \/ Phase(i)' = Phase(i) + 1
    \/ Phase(i) = 0 /\ Phase(i)' = 3 /\ Aborted(i)' /\ res'[i].sent.body.bytes = <<>>

\* once io.Copy has been called, headers, status and status line stay as they
\* are and no abort or error response follows
FrozenAfterBody(i) ==
    Called(res[i], "io.Copy") =>
        /\ res'[i].header = res[i].header
        /\ res'[i].sent.header = res[i].sent.header
        /\ res'[i].sent.status = res[i].sent.status
        /\ res'[i].sent.n = res[i].sent.n
        /\ res'[i].sent.body = res[i].sent.body
        /\ ~Aborted(i)'

\* C18: an asset request goes through Unsent, HeaderSet, BodyWriting and Done
\* in this order, skipping none when it is served: status and headers are all
\* set and written, once, before the first body byte, and once the body is
\* being written no header changes and no abort or error response is issued.
C18_AssetPhases ==
    /\ [](\A i \in Slots :
             (req[i].route \in AssetRoutes) => (res[i].sent.n <= 1 /\ HeadersBeforeBody(i)))
    /\ [][\A i \in Slots :
             (req[i].route \in AssetRoutes /\ InFlight(i) /\ pc'[i] # "idle") =>
                 (PhaseStep(i) /\ FrozenAfterBody(i))]_vars

\* the body of an asset is written: the status line and headers are out, the
\* wrapper has not returned yet
C18_Witness ==
    \E i \in Slots :
        /\ req[i].route = "cdn" /\ Phase(i) = 2
        /\ res[i].sent.n = 1 /\ res[i].sent.status = 206
        /\ res[i].sent.body.bytes # <<>>

\* texts without "-" that are no integer: the empty text among them
NonIntegerStarts == {t \in StringsUpTo(RangeAlphabet \ {"-"}, 2) : ParseInt(t).err}

\* C19: for a Range header bytes=<start>-<end> on a file of size S, a missing
\* end resolves to S - 1 (bytes=<start>- with 0 <= start < S serves
\* start..S-1) and a missing or non-integer start resolves to 0 (bytes=-<end>
\* with 0 <= end < S serves 0..end, not the last bytes); the response is 206
\* with Content-Range, Content-Length and body of the resolved range.
C19_OpenRanges ==
    \A i \in Slots :
        (Done(i) /\ CdnFileRequest(i)) =>
            /\ \A start \in 0..(CdnFileOf(i).Size - 1) :
                  req[i].range = s_bytes \o <<"=">> \o FormatInt(start) \o <<"-">>
                  => IsPartial(i, CdnFileOf(i), start, CdnFileOf(i).Size - 1)
            /\ \A end \in 0..(CdnFileOf(i).Size - 1) : \A t \in NonIntegerStarts :
                  req[i].range = s_bytes \o <<"=">> \o t \o <<"-">> \o FormatInt(end)
                  => IsPartial(i, CdnFileOf(i), 0, end)

\* bytes=-1 on the larger file was answered with its first two bytes
C19_Witness ==
    \E i \in Slots :
        /\ Done(i) /\ CdnFileRequest(i) /\ CdnFileOf(i).Size = FileSize
        /\ req[i].range = s_bytes \o <<"=", "-", "1">>
        /\ res[i].sent.status = 206
        /\ res[i].sent.body.bytes = <<FileBytes(FileSize)[1], FileBytes(FileSize)[2]>>

\* bytes=1- on the larger file was answered with all its bytes from the second
C19_WitnessOpenEnd ==
    \E i \in Slots :
        /\ Done(i) /\ CdnFileRequest(i) /\ CdnFileOf(i).Size = FileSize
        /\ req[i].range = s_bytes \o <<"=", "1", "-">>
        /\ res[i].sent.status = 206
        /\ res[i].sent.body.bytes = SubSeq(FileBytes(FileSize), 2, FileSize)

\* a start that is no integer was read as 0
C19_WitnessNonInteger ==
    \E i \in Slots :
        /\ Done(i) /\ CdnFileRequest(i) /\ CdnFileOf(i).Size = FileSize
        /\ req[i].range = s_bytes \o <<"=", ",", "-", "1">>
        /\ IsPartial(i, CdnFileOf(i), 0, 1)

\* the current user attached to the context of slot i, if any, is the user of
\* the API key of its own request
OwnUser(i) ==
    \/ res[i].currentUser = Nil
    \/ /\ Authenticated(i)
       /\ res[i].currentUser = UserOf(i)

\* slots i and j serve the same request and stand at the same point of it
SameProgress(i, j) ==
    /\ req[i] = req[j]
    /\ pc[i] = pc[j]
    /\ res[i].ip = res[j].ip

\* a step is the step of one request: the contexts, requests and positions of
\* all the others are left as they are, and a request that arrives gets a
\* fresh context
OneRequestStep ==
    \E i \in Slots :
        /\ \A j \in Slots \ {i} : pc'[j] = pc[j] /\ req'[j] = req[j] /\ res'[j] = res[j]
        /\ (pc[i] = "idle" /\ pc'[i] = "handler") => res'[i] = FreshResponse

\* C20: requests served concurrently do not affect one another: each gets a
\* fresh context, the current user, status and headers of one are never seen
\* in the context of another, and the context and response of a request at
\* each point are the same whatever the other requests did meanwhile, as when
\* it runs with no other request in flight.
C20_Isolation ==
    /\ [](\A i \in Slots :
             /\ OwnUser(i)
             /\ \A j \in Slots : SameProgress(i, j) => res[i] = res[j])
    /\ [][OneRequestStep]_vars

\* two requests in flight at once, each with its own user attached, while a
\* third is served an asset
C20_Witness ==
    \E i \in Slots, j \in Slots, k \in Slots :
        /\ pc[i] = "handler" /\ pc[j] = "handler" /\ pc[k] = "handler"
        /\ ~res[i].currentUser.nil /\ ~res[j].currentUser.nil
        /\ res[i].currentUser.ID = 1 /\ res[j].currentUser.ID = 2
        /\ req[k].route = "cdn" /\ res[k].status = 206 /\ res[k].currentUser = Nil

\* a request answered after running interleaved with others got the response
\* of the same request answered before, with no other request in flight
C20_WitnessSameResponse ==
    \E i \in Slots, j \in Slots :
        /\ i # j /\ Done(i) /\ Done(j) /\ req[i] = req[j]
        /\ req[i].route = "profile" /\ res[i].sent.status = 200
        /\ res[i].sent = res[j].sent

====
